---- MODULE Spec2Model ----
(***************************************************************************)
(* Model of index.js: decodeValue (base decoding into a BigInt),           *)
(* lagrangeInterpolationAtZero (exact rational Lagrange interpolation at   *)
(* x = 0) and processTestCase (decode the shares of one problem instance,  *)
(* keep the first k, interpolate).                                          *)
(*                                                                         *)
(* A JavaScript string is a sequence of Unicode code points (for..of       *)
(* iterates by code point), a BigInt is an integer, a fraction [n, d] is   *)
(* the tuple <<n, d>>.  A call ends in a completion record: a normal       *)
(* return with its value, or a throw with the error's name and message.    *)
(***************************************************************************)
EXTENDS Integers, Sequences, FiniteSets, TLC

VARIABLES
    base,       \* decodeValue: argument base (a Number)
    valueStr,   \* decodeValue: argument valueStr
    dpc,        \* decodeValue: "call" before the call, "done" after it
    dout,       \* decodeValue: completion of the call
    coeffs,     \* the polynomial the caller read the points off (<<>>: none), an input
    points,     \* lagrangeInterpolationAtZero: argument points, << <<x, y>>, ... >>
    i,          \* lagrangeInterpolationAtZero: outer loop index (0-based)
    li,         \* last basis fraction assigned at line 81 (<<>> before)
    term,       \* last term fraction assigned at line 84 (<<>> before)
    result,     \* running fraction, lines 61 and 87
    warned,     \* whether console.warn of line 92 ran
    lpc,        \* "loop" | "done"
    lout,       \* completion of lagrangeInterpolationAtZero
    data,       \* processTestCase: the share members of the JSON file, in file order
    k,          \* processTestCase: data.keys.k
    ppc,        \* "call" | "done"
    pout        \* completion of processTestCase

vars == << base, valueStr, dpc, dout, coeffs, points, i, li, term, result, warned, lpc, lout,
           data, k, ppc, pout >>

decodeVars == << base, valueStr, dpc, dout >>
lagrangeVars == << coeffs, points, i, li, term, result, warned, lpc, lout >>
processVars == << data, k, ppc, pout >>

(***************************************************************************)
(* Bounds of the checked inputs                                            *)
(***************************************************************************)
MaxLen == 4        \* longest digit string given to decodeValue
MaxK == 3          \* most points given to lagrangeInterpolationAtZero
MaxX == 4          \* largest x of a point
MaxY == 1          \* the non-zero y of a freely chosen point
MaxCoef == 1       \* largest coefficient of a generating polynomial
MaxN == 3          \* most share members in a JSON file

(***************************************************************************)
(* Completions                                                             *)
(***************************************************************************)
Return(v) == [kind |-> "return", value |-> v, name |-> "", message |-> ""]

\* a throw carries a placeholder value of the type the call would return
Throw(placeholder, errName, msg) ==
    [kind |-> "throw", value |-> placeholder, name |-> errName, message |-> msg]

Abs(a) == IF a < 0 THEN -a ELSE a

\* BigInt division a / b for b # 0: the quotient truncated toward zero
BigIntDiv(a, b) ==
    IF (a < 0) = (b < 0) THEN Abs(a) \div Abs(b) ELSE -(Abs(a) \div Abs(b))

SeqsUpTo(S, n) == UNION {[1..m -> S] : m \in 0..n}

(***************************************************************************)
(* Strings: code points                                                    *)
(*   "0".."9" = 48..57, "A".."Z" = 65..90, "a".."z" = 97..122,             *)
(*   " " = 32, "+" = 43, "-" = 45, "x" = 120, "X" = 88,                    *)
(*   U+0130 = 304 (capital I with dot above), U+0307 = 775 (combining dot),*)
(*   U+212A = 8490 (Kelvin sign).                                          *)
(***************************************************************************)

\* String.prototype.toLowerCase on one code point (a sequence: U+0130 maps to two)
LowerCaseOf(c) ==
    IF c \in 65..90 THEN <<c + 32>>
    ELSE IF c = 8490 THEN <<107>>
    ELSE IF c = 304 THEN <<105, 775>>
    ELSE <<c>>

RECURSIVE toLowerCase(_)
toLowerCase(s) ==
    IF s = <<>> THEN <<>> ELSE LowerCaseOf(Head(s)) \o toLowerCase(Tail(s))

\* the value of code point c as a digit of parseInt, 36 when it is no digit at all
ParseIntDigit(c) ==
    IF c \in 48..57 THEN c - 48
    ELSE IF c \in 97..122 THEN c - 87
    ELSE IF c \in 65..90 THEN c - 55
    ELSE 36

IsWhiteSpace(c) == c \in {9, 10, 11, 12, 13, 32, 160}

RECURSIVE TrimStart(_)
TrimStart(s) ==
    IF s # <<>> /\ IsWhiteSpace(Head(s)) THEN TrimStart(Tail(s)) ELSE s

\* value of the longest prefix of s made of digits of radix R, continuing from acc;
\* seen tells whether a digit was consumed
RECURSIVE ParseDigits(_, _, _, _)
ParseDigits(s, R, acc, seen) ==
    IF s = <<>> \/ ParseIntDigit(Head(s)) >= R
    THEN [isNaN |-> ~seen, num |-> acc]
    ELSE ParseDigits(Tail(s), R, acc * R + ParseIntDigit(Head(s)), TRUE)

\* parseInt(string, radix) on a string; radix 0 stands for an absent radix too
parseInt(s, radix) ==
    LET t == TrimStart(s)
        neg == t # <<>> /\ Head(t) = 45
        u == IF t # <<>> /\ Head(t) \in {43, 45} THEN Tail(t) ELSE t
        hex == Len(u) >= 2 /\ u[1] = 48 /\ u[2] \in {120, 88}
        R == IF radix = 0 THEN (IF hex THEN 16 ELSE 10) ELSE radix
        v == IF hex /\ radix \in {0, 16} THEN Tail(Tail(u)) ELSE u
        p == ParseDigits(v, R, 0, FALSE)
    IN  IF R < 2 \/ R > 36 THEN [isNaN |-> TRUE, num |-> 0]
        ELSE IF p.isNaN THEN [isNaN |-> TRUE, num |-> 0]
        ELSE [isNaN |-> FALSE, num |-> IF neg THEN -p.num ELSE p.num]

\* Number.prototype.toString of an integer: its decimal spelling
RECURSIVE DecimalDigits(_)
DecimalDigits(n) ==
    IF n < 10 THEN <<48 + n>> ELSE Append(DecimalDigits(n \div 10), 48 + (n % 10))

NumberToString(n) == IF n < 0 THEN <<45>> \o DecimalDigits(-n) ELSE DecimalDigits(n)

(***************************************************************************)
(* decodeValue(base, valueStr), lines 17-26                                *)
(***************************************************************************)
NaNToBigInt == "The number NaN cannot be converted to a BigInt because it is not an integer"

\* the loop with line 23 multiplying by ten instead of by the base
RECURSIVE DecodeLoopDecimal(_, _, _)
DecodeLoopDecimal(b, chars, acc) ==
    IF chars = <<>> THEN Return(acc)
    ELSE LET digit == parseInt(<<Head(chars)>>, parseInt(NumberToString(b), 0).num)
         IN  IF digit.isNaN THEN Throw(0, "RangeError", NaNToBigInt)
             ELSE DecodeLoopDecimal(b, Tail(chars), acc * 10 + digit.num)

\* the for..of loop of lines 21-24 over the remaining characters
RECURSIVE DecodeLoop(_, _, _)
DecodeLoop(b, chars, acc) ==
    IF chars = <<>> THEN Return(acc)
    ELSE LET digit == parseInt(<<Head(chars)>>, parseInt(NumberToString(b), 0).num)
         IN  IF digit.isNaN THEN Throw(0, "RangeError", NaNToBigInt)
             ELSE DecodeLoop(b, Tail(chars), acc * b + digit.num)

decodeValue(b, s) == DecodeLoop(b, toLowerCase(s), 0)

(***************************************************************************)
(* lagrangeInterpolationAtZero(points), lines 35-95                        *)
(***************************************************************************)
DivisionByZero == "Division by zero"

\* lines 40-45, on arguments already made non-negative by lines 41-42
RECURSIVE gcdLoop(_, _)
gcdLoop(a, b) == IF b = 0 THEN a ELSE gcdLoop(b, a % b)

gcd(a, b) == gcdLoop(Abs(a), Abs(b))

\* simplify without line 48, the move of the sign to the numerator
simplifyKeepSign(num, den) ==
    LET g == gcd(IF num < 0 THEN -num ELSE num, den)
    IN  IF g = 0 THEN Throw(<<>>, "RangeError", DivisionByZero)
        ELSE Return(<<BigIntDiv(num, g), BigIntDiv(den, g)>>)

\* lines 47-51; num / g and den / g throw a RangeError when g is 0n
simplify(num, den) ==
    LET n1 == IF den < 0 THEN -num ELSE num
        d1 == IF den < 0 THEN -den ELSE den
        g == gcd(IF n1 < 0 THEN -n1 ELSE n1, d1)
    IN  IF g = 0 THEN Throw(<<>>, "RangeError", DivisionByZero)
        ELSE Return(<<BigIntDiv(n1, g), BigIntDiv(d1, g)>>)

\* lines 53-55
addFrac(f1, f2) == simplify(f1[1] * f2[2] + f2[1] * f1[2], f1[2] * f2[2])

\* lines 57-59
mulFrac(f1, f2) == simplify(f1[1] * f2[1], f1[2] * f2[2])

X(pts, idx) == pts[idx + 1][1]
Y(pts, idx) == pts[idx + 1][2]

\* num with the inner loop taking only the points after point idx (j > i)
RECURSIVE BasisNumAfter(_, _, _)
BasisNumAfter(pts, idx, from) ==
    IF from >= Len(pts) THEN 1
    ELSE (IF idx < from THEN 0 - X(pts, from) ELSE 1) * BasisNumAfter(pts, idx, from + 1)

\* lines 69-78: num after the inner loop has run j = from .. n-1
RECURSIVE BasisNum(_, _, _)
BasisNum(pts, idx, from) ==
    IF from >= Len(pts) THEN 1
    ELSE (IF idx # from THEN 0 - X(pts, from) ELSE 1) * BasisNum(pts, idx, from + 1)

\* den with line 76 multiplying by (x_j - x_i)
RECURSIVE BasisDenSwapped(_, _, _)
BasisDenSwapped(pts, idx, from) ==
    IF from >= Len(pts) THEN 1
    ELSE (IF idx # from THEN X(pts, from) - X(pts, idx) ELSE 1)
             * BasisDenSwapped(pts, idx, from + 1)

\* lines 69-78: den after the inner loop has run j = from .. n-1
RECURSIVE BasisDen(_, _, _)
BasisDen(pts, idx, from) ==
    IF from >= Len(pts) THEN 1
    ELSE (IF idx # from THEN X(pts, idx) - X(pts, from) ELSE 1)
             * BasisDen(pts, idx, from + 1)

\* one pass of the outer loop body, lines 64-87, from running fraction res:
\* the values li, term and result hold after it, and the throw that cut it short
LoopBody(pts, idx, oldLi, oldTerm, res) ==
    LET num == BasisNum(pts, idx, 0)
        den == BasisDen(pts, idx, 0)
        l == simplify(num, den)
        t == mulFrac(<<Y(pts, idx), 1>>, l.value)
        r == addFrac(res, t.value)
    IN  IF l.kind = "throw"
        THEN [li |-> oldLi, term |-> oldTerm, result |-> res, thrown |-> TRUE]
        ELSE IF t.kind = "throw"
        THEN [li |-> l.value, term |-> oldTerm, result |-> res, thrown |-> TRUE]
        ELSE IF r.kind = "throw"
        THEN [li |-> l.value, term |-> t.value, result |-> res, thrown |-> TRUE]
        ELSE [li |-> l.value, term |-> t.value, result |-> r.value, thrown |-> FALSE]

\* lines 90-94
FinalQuotient(res) ==
    IF res[2] = 0 THEN Throw(0, "RangeError", DivisionByZero)
    ELSE Return(BigIntDiv(res[1], res[2]))

\* the outer loop from index idx on, then lines 90-94
RECURSIVE LagrangeFrom(_, _, _)
LagrangeFrom(pts, idx, res) ==
    IF idx >= Len(pts) THEN FinalQuotient(res)
    ELSE LET b == LoopBody(pts, idx, <<>>, <<>>, res)
         IN  IF b.thrown THEN Throw(0, "RangeError", DivisionByZero)
             ELSE LagrangeFrom(pts, idx + 1, b.result)

lagrangeInterpolationAtZero(pts) == LagrangeFrom(pts, 0, <<0, 1>>)

(***************************************************************************)
(* Calls of decodeValue                                                    *)
(***************************************************************************)
Pending(placeholder) == [kind |-> "pending", value |-> placeholder, name |-> "", message |-> ""]

\* "0" "1" "9" "F" "f" "z" "-" and the Kelvin sign
CharSample == {48, 49, 57, 70, 102, 122, 45, 8490}

BaseSample == {-1, 0, 1, 2, 10, 16, 36, 37}

LagrangeIdle ==
    /\ coeffs = <<>> /\ points = <<>> /\ i = 0 /\ li = <<>> /\ term = <<>> /\ result = <<0, 1>>
    /\ warned = FALSE /\ lpc = "done" /\ lout = Pending(0)

DecodeIdle == base = 10 /\ valueStr = <<>> /\ dpc = "done" /\ dout = Pending(0)

ProcessIdle == data = <<>> /\ k = 0 /\ ppc = "done" /\ pout = Pending(0)

InitDecode ==
    /\ base \in BaseSample
    /\ valueStr \in SeqsUpTo(CharSample, MaxLen)
    /\ dpc = "call"
    /\ dout = Pending(0)
    /\ LagrangeIdle
    /\ ProcessIdle

\* one call decodeValue(base, valueStr)
DecodeValue ==
    /\ dpc = "call"
    /\ dout' = decodeValue(base, valueStr)
    /\ dpc' = "done"
    /\ UNCHANGED << base, valueStr >>
    /\ UNCHANGED lagrangeVars
    /\ UNCHANGED processVars

NextDecode == DecodeValue

SpecDecode == InitDecode /\ [][NextDecode]_vars

(***************************************************************************)
(* Calls of lagrangeInterpolationAtZero, one outer loop pass at a time     *)
(***************************************************************************)
XS == 0..MaxX

YS == {0, MaxY}

DistinctX(pts) ==
    \A a, b \in 1..Len(pts) : a # b => pts[a][1] # pts[b][1]

\* c[1] + c[2] x + c[3] x^2 + ... by Horner's rule from coefficient from on
RECURSIVE PolyEval(_, _, _)
PolyEval(c, x, from) ==
    IF from > Len(c) THEN 0 ELSE c[from] + x * PolyEval(c, x, from + 1)

\* the polynomials of degree below m with coefficients in 0..MaxCoef
Polynomials(m) == [1..m -> 0..MaxCoef]

DistinctXs(m) == {s \in [1..m -> XS] : \A a, b \in 1..m : a # b => s[a] # s[b]}

FreePoints == SeqsUpTo(XS \X YS, MaxK)

\* the known-value scenario: x^2 + 3 read at x = 1, 2, 3
KnownPolynomial == <<3, 0, 1>>

KnownXs == <<1, 2, 3>>

PointsOn(c, xs) == [j \in 1..Len(xs) |-> <<xs[j], PolyEval(c, xs[j], 1)>>]

\* the points are read off a polynomial at pairwise distinct x, or chosen freely
InitLagrange ==
    /\ \/ \E m \in 1..MaxK : \E xs \in DistinctXs(m) :
            /\ coeffs \in Polynomials(m)
            /\ points = PointsOn(coeffs, xs)
       \/ /\ coeffs = KnownPolynomial
          /\ points = PointsOn(KnownPolynomial, KnownXs)
       \/ /\ coeffs = <<>>
          /\ points \in FreePoints
    /\ i = 0
    /\ li = <<>>
    /\ term = <<>>
    /\ result = <<0, 1>>
    /\ warned = FALSE
    /\ lpc = "loop"
    /\ lout = Pending(0)
    /\ DecodeIdle
    /\ ProcessIdle

\* one pass of the for loop of line 63
LoopPass ==
    /\ lpc = "loop"
    /\ i < Len(points)
    /\ LET b == LoopBody(points, i, li, term, result)
       IN  /\ li' = b.li
           /\ term' = b.term
           /\ result' = b.result
           /\ IF b.thrown
              THEN /\ lpc' = "done"
                   /\ lout' = Throw(0, "RangeError", DivisionByZero)
                   /\ i' = i
              ELSE /\ lpc' = "loop"
                   /\ lout' = lout
                   /\ i' = i + 1
    /\ UNCHANGED << coeffs, points, warned >>
    /\ UNCHANGED decodeVars
    /\ UNCHANGED processVars

\* lines 90-94, after the loop
LagrangeReturn ==
    /\ lpc = "loop"
    /\ i >= Len(points)
    /\ warned' = (result[2] # 1 /\ result[2] # -1)
    /\ lout' = FinalQuotient(result)
    /\ lpc' = "done"
    /\ UNCHANGED << coeffs, points, i, li, term, result >>
    /\ UNCHANGED decodeVars
    /\ UNCHANGED processVars

NextLagrange == LoopPass \/ LagrangeReturn

SpecLagrange == InitLagrange /\ [][NextLagrange]_vars

(***************************************************************************)
(* processTestCase(filePath), lines 100-139.  The file's share members are *)
(* a sequence of [key, base, value] in file order: key the member name     *)
(* (an integer in canonical decimal spelling), base and value strings.     *)
(***************************************************************************)
Str10 == <<49, 48>>

Str2 == <<50>>

Str16 == <<49, 54>>

\* (base, value): 4 in base 10, 7 in base 2, 12 in base 16, 0 in base 10,
\* and a digit that base 2 does not have
EncSample ==
    { <<Str10, <<52>>>>, <<Str2, <<49, 49, 49>>>>, <<Str16, <<99>>>>,
      <<Str10, <<48>>>>, <<Str2, <<57>>>> }

KeySample == {-1} \cup 1..MaxN

Members == [key : KeySample, base : {e[1] : e \in EncSample}, value : {e[2] : e \in EncSample}]

MemberSample == {m \in Members : <<m.base, m.value>> \in EncSample}

\* a member name that is an array index (0 .. 2^32 - 2, all the non-negative keys
\* of this model): Object.keys lists these first, ascending
IsArrayIndex(key) == key >= 0

\* the array-index keys of set S in ascending order
RECURSIVE Ascending(_)
Ascending(S) ==
    IF S = {} THEN <<>>
    ELSE LET m == CHOOSE a \in S : \A b \in S : a <= b
         IN  <<m>> \o Ascending(S \ {m})

\* the other keys of the members from position from on, in order of first appearance
RECURSIVE InsertionOrder(_, _, _)
InsertionOrder(d, from, seen) ==
    IF from > Len(d) THEN <<>>
    ELSE IF IsArrayIndex(d[from].key) \/ d[from].key \in seen
         THEN InsertionOrder(d, from + 1, seen)
         ELSE <<d[from].key>> \o InsertionOrder(d, from + 1, seen \cup {d[from].key})

\* Object.keys(data) without "keys" (line 116-117) after JSON.parse (line 106)
ObjectKeys(d) ==
    Ascending({d[j].key : j \in {j \in 1..Len(d) : IsArrayIndex(d[j].key)}})
        \o InsertionOrder(d, 1, {})

\* data[key] after JSON.parse: the last member of that name wins
Member(d, key) ==
    d[CHOOSE j \in 1..Len(d) : d[j].key = key /\ \A h \in (j + 1)..Len(d) : d[h].key # key]

\* lines 116-126 from position from of keys on: the points pushed, or the throw
RECURSIVE DecodePoints(_, _, _)
DecodePoints(d, keys, from) ==
    IF from > Len(keys) THEN Return(<<>>)
    ELSE LET m == Member(d, keys[from])
             b == parseInt(m.base, 0)
             y == decodeValue(b.num, m.value)
             rest == DecodePoints(d, keys, from + 1)
         IN  IF b.isNaN THEN Throw(<<>>, "RangeError", NaNToBigInt)
             ELSE IF y.kind = "throw" THEN Throw(<<>>, y.name, y.message)
             ELSE IF rest.kind = "throw" THEN rest
             ELSE Return(<<<<keys[from], y.value>>>> \o rest.value)

\* Array.prototype.slice(0, count) for count >= 0
slice(arr, count) == SubSeq(arr, 1, IF count < Len(arr) THEN count ELSE Len(arr))

processTestCase(d, count) ==
    LET pts == DecodePoints(d, ObjectKeys(d), 1)
    IN  IF pts.kind = "throw" THEN Throw(0, pts.name, pts.message)
        ELSE lagrangeInterpolationAtZero(slice(pts.value, count))

InitProcess ==
    /\ data \in SeqsUpTo(MemberSample, MaxN)
    /\ k \in 0..(MaxN + 1)
    /\ ppc = "call"
    /\ pout = Pending(0)
    /\ DecodeIdle
    /\ LagrangeIdle

\* one call processTestCase on a file holding data and keys.k = k
ProcessTestCase ==
    /\ ppc = "call"
    /\ pout' = processTestCase(data, k)
    /\ ppc' = "done"
    /\ UNCHANGED << data, k >>
    /\ UNCHANGED decodeVars
    /\ UNCHANGED lagrangeVars

NextProcess == ProcessTestCase

Spec == InitProcess /\ [][NextProcess]_vars

(***************************************************************************)
(* Properties of decodeValue (under SpecDecode)                            *)
(***************************************************************************)
IsAlphanumeric(c) == c \in 48..57 \/ c \in 65..90 \/ c \in 97..122

\* digit value of an alphanumeric character: 0-9 -> 0..9, a-z or A-Z -> 10..35
DigitValue(c) ==
    IF c \in 48..57 THEN c - 48 ELSE IF c \in 65..90 THEN c - 65 + 10 ELSE c - 97 + 10

RECURSIVE Power(_, _)
Power(b, e) == IF e = 0 THEN 1 ELSE b * Power(b, e - 1)

\* sum of DigitValue(s[j]) * b^(Len(s) - j) over the positions from .. Len(s)
RECURSIVE PositionalValue(_, _, _)
PositionalValue(b, s, from) ==
    IF from > Len(s) THEN 0
    ELSE DigitValue(s[from]) * Power(b, Len(s) - from) + PositionalValue(b, s, from + 1)

UpperCase(s) == [j \in 1..Len(s) |-> IF s[j] \in 97..122 THEN s[j] - 32 ELSE s[j]]

LowerCase(s) == [j \in 1..Len(s) |-> IF s[j] \in 65..90 THEN s[j] + 32 ELSE s[j]]

ValidDigits(b, s) ==
    \A j \in 1..Len(s) : IsAlphanumeric(s[j]) /\ DigitValue(s[j]) < b

\* C2: for a base in 2..36 and a non-empty string of alphanumeric digits below the
\* base, decodeValue returns the positional value of the string, and the upper-case
\* and the lower-case spelling of the string decode to that same integer.
C2_DecodePositional ==
    (dpc = "done" /\ base \in 2..36 /\ valueStr # <<>> /\ ValidDigits(base, valueStr))
        => /\ dout = Return(PositionalValue(base, valueStr, 1))
           /\ decodeValue(base, UpperCase(valueStr)) = dout
           /\ decodeValue(base, LowerCase(valueStr)) = dout

\* decodeValue(16, "FF") has returned 255
C2_Witness ==
    dpc = "done" /\ base = 16 /\ valueStr = <<70, 70>> /\ dout = Return(255)

\* C5: for a base in 2..36, decodeValue fails and returns no integer whenever some
\* character of the string is not alphanumeric or has a digit value >= base.  (Any
\* throw is taken for the InvalidDigit outcome: the code has no error classes.)
C5_InvalidDigitFails ==
    (dpc = "done" /\ base \in 2..36 /\ ~ValidDigits(base, valueStr))
        => dout.kind = "throw"

\* C6: decodeValue fails and returns no integer for every base outside 2..36,
\* whatever the digit string is, the empty one included.  (Any throw is taken for
\* the InvalidBase outcome.)
C6_InvalidBaseFails ==
    (dpc = "done" /\ base \notin 2..36) => dout.kind = "throw"

(***************************************************************************)
(* Properties of lagrangeInterpolationAtZero (under SpecLagrange)          *)
(***************************************************************************)

\* the points of the known-value scenario
KnownPoints == << <<1, 4>>, <<2, 7>>, <<3, 12>> >>

\* a completed call on points read off a polynomial has returned the polynomial's
\* constant coefficient, and a completed call on a single point its y
C1_General ==
    /\ (lpc = "done" /\ coeffs # <<>>) => lout = Return(PolyEval(coeffs, 0, 1))
    /\ (lpc = "done" /\ Len(points) = 1) => lout = Return(points[1][2])

\* C1: for k >= 1 points with pairwise distinct x read off a polynomial with integer
\* coefficients and degree at most k-1, lagrangeInterpolationAtZero returns the
\* polynomial's value at 0 (its constant coefficient); a single point yields its y;
\* and on (1,4),(2,7),(3,12), which lie on x^2 + 3, it returns 3.
C1_RecoversConstantTerm ==
    /\ C1_General
    /\ (lpc = "done" /\ points = KnownPoints) => lout = Return(3)

\* the call on (1,4),(2,7),(3,12), read off x^2 + 3, has returned
C1_Witness ==
    /\ lpc = "done"
    /\ coeffs = KnownPolynomial
    /\ points = KnownPoints
    /\ lout.kind = "return"

\* C1 as stated: the same, but on (1,4),(2,7),(3,12) the call returns 2.
C1_AsStated ==
    /\ C1_General
    /\ (lpc = "done" /\ points = KnownPoints) => lout = Return(2)

\* C3: when two of the points have the same x, the call ends in a DuplicateShareIndex
\* error and never in a division-by-zero failure, whatever the y and the other x are.
C3_DuplicateShareIndex ==
    (lpc = "done" /\ ~DistinctX(points))
        => /\ lout.kind = "throw"
           /\ lout.name = "DuplicateShareIndex"
           /\ lout.message # DivisionByZero

\* C4: when the points have pairwise distinct x and the final fraction's denominator
\* is neither 1 nor -1, the call reports a NonIntegralResult error and returns no
\* truncated quotient.  (Any throw is taken for the NonIntegralResult outcome.)
C4_NonIntegralResult ==
    (lpc = "done" /\ DistinctX(points) /\ result[2] # 1 /\ result[2] # -1)
        => lout.kind = "throw"

Permute(pts, perm) == [j \in 1..Len(pts) |-> pts[perm[j]]]

\* C7: for points with pairwise distinct x, the call returns the same value on every
\* permutation of the points, also when the final fraction is not integral.
C7_PermutationInvariant ==
    (lpc = "done" /\ DistinctX(points))
        => \A perm \in Permutations(1..Len(points)) :
               lagrangeInterpolationAtZero(Permute(points, perm)) = lout

\* a call on three points, not in ascending order of x, whose final fraction has
\* denominator 3 has returned
C7_Witness ==
    /\ lpc = "done"
    /\ DistinctX(points)
    /\ Len(points) = 3
    /\ points[1][1] > points[2][1]
    /\ result[2] = 3
    /\ lout.kind = "return"

\* n / d with d > 0, no common divisor above 1, and zero spelled 0 / 1
Normalized(f) ==
    /\ f[2] > 0
    /\ \A q \in 2..f[2] : ~(Abs(f[1]) % q = 0 /\ f[2] % q = 0)
    /\ f[1] = 0 => f[2] = 1

\* C10: for points with pairwise distinct x (x = 0 and y = 0 included), the basis
\* fraction li, the term and the running result are in normalized form at every step
\* of the accumulation.
C10_FractionsNormalized ==
    DistinctX(points)
        => /\ li # <<>> => Normalized(li)
           /\ term # <<>> => Normalized(term)
           /\ Normalized(result)

\* after the last pass over three points, one of them with y = 0: the last basis
\* fraction had a negative denominator before simplify, the last term is zero and
\* the running result is a proper fraction
C10_Witness ==
    /\ lpc = "loop"
    /\ i = 3
    /\ DistinctX(points)
    /\ BasisDen(points, 2, 0) < 0
    /\ term = <<0, 1>>
    /\ result[2] > 1

(***************************************************************************)
(* Properties of processTestCase (under Spec)                              *)
(***************************************************************************)

\* C8: when k = 0, or when fewer than k decoded points are available, the run ends
\* in an InsufficientShares error and returns no secret.  (Any throw is taken for
\* the InsufficientShares outcome.)
C8_InsufficientShares ==
    (ppc = "done" /\ (k = 0 \/ k > Len(ObjectKeys(data))))
        => pout.kind = "throw"

\* a file of shares as the data model describes them: share indices >= 1, unique,
\* every value a digit string of its base
WellFormed(d) ==
    /\ \A j \in 1..Len(d) : d[j].key >= 1
    /\ \A a, b \in 1..Len(d) : a # b => d[a].key # d[b].key
    /\ \A j \in 1..Len(d) :
           decodeValue(parseInt(d[j].base, 0).num, d[j].value).kind = "return"

\* C9: for k <= n, the outcome rests on the first k shares in file order alone: any
\* well-formed file with the same first k shares, whatever follows them, gives the
\* same secret.
C9_FirstKInInputOrder ==
    (ppc = "done" /\ k <= Len(data) /\ WellFormed(data))
        => \A rest \in SeqsUpTo(MemberSample, MaxN - k) :
               WellFormed(SubSeq(data, 1, k) \o rest)
                   => processTestCase(SubSeq(data, 1, k) \o rest, k) = pout

====
